---- MODULE Spec2Model ----
(***************************************************************************)
(* EnergyMeter (src/energy_meter.py): a begin/end measurement session over *)
(* pyRAPL, and estimators that turn the session's counter snapshot and two *)
(* timestamped logs (GPU power, disk I/O) into joules per component.       *)
(*                                                                         *)
(* Python floats are modelled as exact rationals [n, d] in lowest terms.   *)
(* Instants are in microseconds; the wall clock is time_ns() / 1000.       *)
(***************************************************************************)
EXTENDS Integers, Sequences, FiniteSets, TLC

VARIABLES
    setups,   \* how many times pyRAPL.setup() has run in this process
    obj,      \* obj[i]: the EnergyMeter instance i, or NoObj before its construction
    now,      \* the wall clock, in microseconds (a rational)
    life,     \* life[i]: the latest begin()/end() that completed on instance i
    call      \* the latest call: its operation, arguments, outcome

vars == <<setups, obj, now, life, call>>

-----------------------------------------------------------------------------
\* Bounds of the model.

\* Controller instances that one process may construct.
MaxInst == 2
\* The clock is read on a half-microsecond grid 0, 1/2, ..., MaxSub/2.
MaxSub == 3

-----------------------------------------------------------------------------
\* Python values.

NoneV == [none |-> TRUE]
NaN == [nan |-> TRUE]
NoObj == [absent |-> TRUE]

\* Exact rational arithmetic standing for float arithmetic.
Abs(x) == IF x < 0 THEN -x ELSE x

RECURSIVE GCD(_, _)
GCD(a, b) == IF b = 0 THEN a ELSE GCD(b, a % b)

R(n, d) ==
    LET g == GCD(Abs(n), d)
    IN  [n |-> n \div g, d |-> d \div g]

Zero == R(0, 1)

RAdd(a, b) ==
    LET l == (a.d \div GCD(a.d, b.d)) * b.d
    IN  R(a.n * (l \div a.d) + b.n * (l \div b.d), l)

RSub(a, b) == RAdd(a, [n |-> -b.n, d |-> b.d])

RMul(a, b) ==
    LET g1 == GCD(Abs(a.n), b.d)
        g2 == GCD(Abs(b.n), a.d)
    IN  R((a.n \div g1) * (b.n \div g2), (a.d \div g2) * (b.d \div g1))

RLt(a, b) ==
    LET l == (a.d \div GCD(a.d, b.d)) * b.d
    IN  a.n * (l \div a.d) < b.n * (l \div b.d)

RLe(a, b) == ~RLt(b, a)

RECURSIVE RSum(_)
RSum(s) == IF s = <<>> THEN Zero ELSE RAdd(s[1], RSum(Tail(s)))

\* The factor 1e-6 of lines 102, 111, 121, 129, 145, 147.
Micro == R(1, 1000000)

\* round(): to the nearest integer, a tie to the even one.
RoundHalfEven(r) ==
    LET q == r.n \div r.d
        rem == r.n - q * r.d
    IN  IF 2 * rem < r.d THEN q
        ELSE IF 2 * rem > r.d THEN q + 1
        ELSE IF q % 2 = 0 THEN q ELSE q + 1

\* datetime.fromtimestamp(seconds): a datetime of microsecond resolution,
\* here the integer count of microseconds.
FromTimestamp(secs) == RoundHalfEven(RMul(secs, R(1000000, 1)))

-----------------------------------------------------------------------------
\* Inputs.

\* Constructor arguments (disk_avg_speed in bytes/s, powers in watts).
Configs ==
    { [disk_avg_speed |-> 200000000, disk_active_power |-> 6,
       disk_idle_power |-> 1, label |-> NoneV],
      [disk_avg_speed |-> 100000000, disk_active_power |-> 3,
       disk_idle_power |-> 2, label |-> [str |-> "run"]] }

\* What the RAPL counters gave between begin and end, in micro-joules, one
\* entry per socket.
Readings ==
    { [pkg |-> <<1500000>>, dram |-> <<250000>>],
      [pkg |-> <<2000000, 500000>>, dram |-> <<0, 125000>>] }

\* The instants the clock is read at: the half-microsecond grid, and ten
\* seconds.
Instants == { R(k, 2) : k \in 0..MaxSub } \cup { R(10000000, 1) }

Python == <<"p", "y", "t", "h", "o", "n">>
Python3 == <<"p", "y", "t", "h", "o", "n", "3">>
Bash == <<"b", "a", "s", "h">>

\* gpu_stats.csv files: rows of timestamp and power_usage(W).
GpuRow(t, w) == [timestamp |-> t, power_usage |-> w]

GpuLogs ==
    { <<>>,
      <<GpuRow(R(0, 1), 40), GpuRow(R(1, 1), 20), GpuRow(R(2, 1), 60)>>,
      <<GpuRow(R(5000000, 1), 60), GpuRow(R(5000000, 1), 20),
        GpuRow(R(10000000, 1), 40)>> }

\* disk_stats.csv files. The headers are read shifted (line 97): the index
\* holds the timestamp, column "ByteSize" the command name and column
\* "Operation" the byte count.
DiskRow(t, comm, bytes) == [timestamp |-> t, ByteSize |-> comm, Operation |-> bytes]

DiskLogs ==
    { <<>>,
      <<DiskRow(R(1000000, 1), Python, 500000000),
        DiskRow(R(2000000, 1), Python3, 300000000),
        DiskRow(R(3000000, 1), Bash, 100000000),
        DiskRow(R(10000000, 1), Python, 100000000)>>,
      <<DiskRow(R(0, 1), Python, 300000000),
        DiskRow(R(1, 1), Bash, 500000000),
        DiskRow(R(1, 1), Python, 100000000)>> }

\* Folders written by start_meters.sh.
Folders == { [gpu_stats |-> g, disk_stats |-> d] : g \in GpuLogs, d \in DiskLogs }

Insts == 1..MaxInst

-----------------------------------------------------------------------------
\* pyRAPL, as EnergyMeter uses it.

\* pyRAPL.Measurement(label): no begin instant and no result yet.
Measurement(label) == [label |-> label, ts_begin |-> NoneV, result |-> NoneV]

\* Measurement.begin(): records the clock.
MeasurementBegin(m, t) == [m EXCEPT !.ts_begin = t]

\* Measurement.end(): the result holds the begin instant in seconds, the
\* elapsed time in microseconds and the counters' deltas.
MeasurementEnd(m, t, reading) ==
    [m EXCEPT !.result = [timestamp |-> RMul(m.ts_begin, Micro),
                          duration  |-> RSub(t, m.ts_begin),
                          pkg       |-> reading.pkg,
                          dram      |-> reading.dram]]

-----------------------------------------------------------------------------
\* EnergyMeter.

\* `if label:` of line 67.
Truthy(label) == label # NoneV /\ label.str # ""

\* __init__, lines 62-70.
EnergyMeter(cfg) ==
    [disk_avg_speed    |-> cfg.disk_avg_speed,
     disk_active_power |-> cfg.disk_active_power,
     disk_idle_power   |-> cfg.disk_idle_power,
     meter             |-> NoneV,
     label             |-> IF Truthy(cfg.label) THEN cfg.label ELSE [str |-> "Meter"]]

\* self.meter.result can be read: self.meter is an object and its result too.
HasResult(o) == o.meter # NoneV /\ o.meter.result # NoneV

\* meter_start and meter_end of lines 100-102 and 143-145.
MeterStart(res) == FromTimestamp(res.timestamp)
MeterEnd(res) == FromTimestamp(RAdd(res.timestamp, RMul(res.duration, Micro)))

\* A mask that keeps the row at meter_end too.
InWindowClosed(t, meter_start, meter_end) ==
    RLe(R(meter_start, 1), t) /\ RLe(t, R(meter_end, 1))

\* The mask (index >= meter_start) & (index < meter_end) of lines 103, 146.
InWindow(t, meter_start, meter_end) ==
    RLe(R(meter_start, 1), t) /\ RLt(t, R(meter_end, 1))

\* df[mask]: the rows the mask keeps, in order.
Filtered(df, meter_start, meter_end) ==
    SelectSeq(df, LAMBDA row : InWindow(row.timestamp, meter_start, meter_end))

\* Series.str.contains(pat), for a pattern without regex metacharacters.
Contains(s, pat) ==
    \E k \in 0..(Len(s) - Len(pat)) : SubSeq(s, k + 1, k + Len(pat)) = pat

\* Series.sum(): 0 for no rows.
RECURSIVE Sum(_)
Sum(s) == IF s = <<>> THEN 0 ELSE s[1] + Sum(Tail(s))

\* Series.mean(): NaN for no rows.
Mean(rows) ==
    IF rows = <<>> THEN NaN
    ELSE R(Sum([k \in 1..Len(rows) |-> rows[k].power_usage]), Len(rows))

\* The bytes of every row, tagged or not.
TotBytesAll(filtered_df) ==
    Sum([k \in 1..Len(filtered_df) |-> filtered_df[k].Operation])

\* tot_bytes of line 105.
TotBytes(filtered_df) ==
    LET tagged == SelectSeq(filtered_df, LAMBDA row : Contains(row.ByteSize, Python))
    IN  Sum([k \in 1..Len(tagged) |-> tagged[k].Operation])

\* disk_active_time of line 108 and disk_idle_time of line 111, in seconds.
DiskActiveTime(o, filtered_df) == R(TotBytes(filtered_df), o.disk_avg_speed)

DiskIdleTime(o, filtered_df) ==
    RSub(RMul(o.meter.result.duration, Micro), DiskActiveTime(o, filtered_df))

\* The rows get_total_jules_disk keeps of the disk log, lines 100-103.
DiskRows(o, df) ==
    Filtered(df, MeterStart(o.meter.result), MeterEnd(o.meter.result))

\* The rows get_total_jules_gpu keeps of the GPU log, lines 143-146.
GpuRows(o, df) ==
    Filtered(df, MeterStart(o.meter.result), MeterEnd(o.meter.result))

get_total_jules_disk(o, df) ==
    LET filtered_df == DiskRows(o, df)
    IN  RAdd(RMul(DiskActiveTime(o, filtered_df), R(o.disk_active_power, 1)),
             RMul(DiskIdleTime(o, filtered_df), R(o.disk_idle_power, 1)))

\* A scale of 1e-3.
ScaledMilli(values) == [k \in 1..Len(values) |-> RMul(R(values[k], 1), R(1, 1000))]

\* np.array(values) * 1e-6
Scaled(values) == [k \in 1..Len(values) |-> RMul(R(values[k], 1), Micro)]

get_total_jules_cpu(o) == Scaled(o.meter.result.pkg)

get_total_jules_dram(o) == Scaled(o.meter.result.dram)

get_total_jules_gpu(o, df) ==
    LET mean_p == Mean(GpuRows(o, df))
    IN  IF mean_p = NaN THEN NaN
        ELSE RMul(RMul(mean_p, o.meter.result.duration), Micro)

\* No substitution for NaN.
NanKept(gpu) == gpu

\* `if np.isnan(gpu): gpu = 0` of lines 158-159.
NanToZero(gpu) == IF gpu = NaN THEN Zero ELSE gpu

get_total_jules_per_component(o, folder) ==
    [cpu  |-> get_total_jules_cpu(o),
     dram |-> get_total_jules_dram(o),
     gpu  |-> NanToZero(get_total_jules_gpu(o, folder.gpu_stats)),
     disk |-> get_total_jules_disk(o, folder.disk_stats)]

\* A total that leaves the memory out.
TotalNoDram(data) == RAdd(RAdd(RSum(data.cpu), data.disk), data.gpu)

\* data["total"] of line 174.
Total(data) ==
    RAdd(RAdd(RAdd(RSum(data.cpu), RSum(data.dram)), data.disk), data.gpu)

\* data after line 174.
PlotData(o, folder) ==
    LET data == get_total_jules_per_component(o, folder)
    IN  [cpu |-> data.cpu, dram |-> data.dram, gpu |-> data.gpu,
         disk |-> data.disk, total |-> Total(data)]

\* float(val) of line 176 raises TypeError for an array that has not one element.
Convertible(data) == Len(data.cpu) = 1 /\ Len(data.dram) = 1

\* The bars plt.bar draws, lines 175-178.
Bars(data) ==
    [keys   |-> <<"cpu", "dram", "gpu", "disk", "total">>,
     values |-> <<data.cpu[1], data.dram[1], data.gpu, data.disk, data.total>>]

-----------------------------------------------------------------------------
\* The calls a program makes.

Outcome(op, i, arg, value, err) ==
    [op |-> op, inst |-> i, arg |-> arg, value |-> value, err |-> err]

Init ==
    /\ setups = 0
    /\ obj = [i \in Insts |-> NoObj]
    /\ now = Zero
    /\ life = [i \in Insts |-> "none"]
    /\ call = Outcome("none", 0, NoneV, NoneV, "None")

\* Time passes.
Tick(t) ==
    /\ RLt(now, t)
    /\ now' = t
    /\ UNCHANGED <<setups, obj, life, call>>

\* A construction that sets pyRAPL up only if no construction did before.
ConstructSetupOnce(i, cfg) ==
    /\ obj[i] = NoObj
    /\ setups' = IF setups = 0 THEN 1 ELSE setups
    /\ obj' = [obj EXCEPT ![i] = EnergyMeter(cfg)]
    /\ call' = Outcome("__init__", i, NoneV, NoneV, "None")
    /\ UNCHANGED <<now, life>>

\* m = EnergyMeter(disk_avg_speed, disk_active_power, disk_idle_power, label)
Construct(i, cfg) ==
    /\ obj[i] = NoObj
    /\ setups' = setups + 1
    /\ obj' = [obj EXCEPT ![i] = EnergyMeter(cfg)]
    /\ call' = Outcome("__init__", i, NoneV, NoneV, "None")
    /\ UNCHANGED <<now, life>>

\* A begin that restarts the Measurement it finds instead of making a new one.
beginReuse(i) ==
    /\ obj[i] # NoObj
    /\ obj' = [obj EXCEPT ![i].meter =
                   MeasurementBegin(IF obj[i].meter = NoneV
                                    THEN Measurement(obj[i].label)
                                    ELSE obj[i].meter, now)]
    /\ life' = [life EXCEPT ![i] = "begin"]
    /\ call' = Outcome("begin", i, NoneV, NoneV, "None")
    /\ UNCHANGED <<setups, now>>

\* begin(), lines 77-78.
begin(i) ==
    /\ obj[i] # NoObj
    /\ obj' = [obj EXCEPT ![i].meter =
                   MeasurementBegin(Measurement(obj[i].label), now)]
    /\ life' = [life EXCEPT ![i] = "begin"]
    /\ call' = Outcome("begin", i, NoneV, NoneV, "None")
    /\ UNCHANGED <<setups, now>>

end(i, reading) ==
    /\ obj[i] # NoObj
    /\ IF obj[i].meter = NoneV
       THEN /\ call' = Outcome("end", i, NoneV, NoneV, "AttributeError")
            /\ UNCHANGED <<obj, life>>
       ELSE /\ obj' = [obj EXCEPT ![i].meter =
                           MeasurementEnd(obj[i].meter, now, reading)]
            /\ life' = [life EXCEPT ![i] = "end"]
            /\ call' = Outcome("end", i, NoneV, NoneV, "None")
    /\ UNCHANGED <<setups, now>>

\* A call of an estimator: its value, or the AttributeError of reading
\* self.meter.result when there is none.
Read(op, i, arg, value) ==
    /\ obj[i] # NoObj
    /\ call' = IF HasResult(obj[i])
               THEN Outcome(op, i, arg, value, "None")
               ELSE Outcome(op, i, arg, NoneV, "AttributeError")
    /\ UNCHANGED <<setups, obj, now, life>>

CallCpu(i) == Read("get_total_jules_cpu", i, NoneV, get_total_jules_cpu(obj[i]))

CallDram(i) == Read("get_total_jules_dram", i, NoneV, get_total_jules_dram(obj[i]))

CallGpu(i, df) ==
    Read("get_total_jules_gpu", i, df,
         [rows |-> GpuRows(obj[i], df), ret |-> get_total_jules_gpu(obj[i], df)])

CallDisk(i, df) ==
    Read("get_total_jules_disk", i, df,
         [rows |-> DiskRows(obj[i], df), ret |-> get_total_jules_disk(obj[i], df)])

CallReport(i, folder) ==
    Read("get_total_jules_per_component", i, folder,
         get_total_jules_per_component(obj[i], folder))

CallPlot(i, folder) ==
    /\ obj[i] # NoObj
    /\ call' =
         IF ~HasResult(obj[i])
         THEN Outcome("plot_total_jules_per_component", i, folder, NoneV,
                      "AttributeError")
         ELSE LET data == PlotData(obj[i], folder)
              IN  IF Convertible(data)
                  THEN Outcome("plot_total_jules_per_component", i, folder,
                               [data |-> data, bars |-> Bars(data),
                                title |-> obj[i].meter.label], "None")
                  ELSE Outcome("plot_total_jules_per_component", i, folder,
                               [data |-> data, bars |-> NoneV,
                                title |-> NoneV], "TypeError")
    /\ UNCHANGED <<setups, obj, now, life>>

\* One controller, through every operation.
Next ==
    \/ \E t \in Instants : Tick(t)
    \/ \E cfg \in Configs : Construct(1, cfg)
    \/ begin(1)
    \/ \E reading \in Readings : end(1, reading)
    \/ CallCpu(1)
    \/ CallDram(1)
    \/ \E df \in GpuLogs : CallGpu(1, df)
    \/ \E df \in DiskLogs : CallDisk(1, df)
    \/ \E folder \in Folders : CallReport(1, folder)
    \/ \E folder \in Folders : CallPlot(1, folder)

Spec == Init /\ [][Next]_vars

\* One process with several controllers, through construction and sessions;
\* the controllers share one configuration and a single-socket machine.
ProcessConfigs == { cfg \in Configs : cfg.label = NoneV }
ProcessReadings == { reading \in Readings : Len(reading.pkg) = 1 }

NextProcess ==
    \/ \E t \in Instants : Tick(t)
    \/ \E i \in Insts, cfg \in ProcessConfigs : Construct(i, cfg)
    \/ \E i \in Insts : begin(i)
    \/ \E i \in Insts, reading \in ProcessReadings : end(i, reading)

SpecProcess == Init /\ [][NextProcess]_vars

-----------------------------------------------------------------------------
\* What the claims speak of.

Estimators ==
    { "get_total_jules_cpu", "get_total_jules_dram", "get_total_jules_gpu",
      "get_total_jules_disk", "get_total_jules_per_component" }

Failed(c) == c.err # "None"

\* The latest call was `op`, made on a controller whose window is closed, and
\* it returned.
Returned(op) ==
    /\ call.op = op
    /\ life[call.inst] = "end"
    /\ ~Failed(call)

\* The controller and the result the latest call read.
Callee == obj[call.inst]
Result == obj[call.inst].meter.result

\* The indices of the rows of df with s <= timestamp < e.
HalfOpen(df, s, e) ==
    { k \in DOMAIN df :
        /\ ~RLt(df[k].timestamp, R(s, 1))
        /\ RLt(df[k].timestamp, R(e, 1)) }

\* The rows of df at the indices K, in order.
RECURSIVE Pick(_, _, _)
Pick(df, K, k) ==
    IF k > Len(df) THEN <<>>
    ELSE (IF k \in K THEN <<df[k]>> ELSE <<>>) \o Pick(df, K, k + 1)

\* The sum of f over the index set K.
RECURSIVE SumOver(_, _)
SumOver(f, K) ==
    IF K = {} THEN 0
    ELSE LET k == CHOOSE x \in K : TRUE
         IN  f[k] + SumOver(f, K \ {k})

-----------------------------------------------------------------------------
\* C1: a begin() issued while a window is open fails and leaves the open
\* window as it was (so an open window is never silently replaced).
C1_BeginWhileOpenFails ==
    [][\A i \in Insts :
         (life[i] = "begin" /\ begin(i))
             => (Failed(call') /\ obj'[i] = obj[i])]_vars

\* C2: an end() issued when no window is open (never begun, or already
\* ended) fails, changes nothing of the session and captures no new snapshot.
C2_EndWithoutOpenFails ==
    [][\A i \in Insts :
         (obj[i] # NoObj /\ life[i] # "begin"
              /\ \E reading \in Readings : end(i, reading))
             => (Failed(call') /\ obj'[i] = obj[i])]_vars

\* C3: on a closed session both windowed estimators keep exactly the rows with
\* meter_start <= timestamp < meter_end (a row at meter_start is kept when the
\* window is not empty, a row at meter_end never), filtering the kept rows
\* again keeps them all and gives the same energy; and when the window of the
\* next session starts where the window of the previous one ends
\* (meter_start = previous meter_end), no row is kept for both.
C3_Kept(keep(_, _), estimate(_, _)) ==
    LET df == call.arg
        s == MeterStart(Result)
        e == MeterEnd(Result)
        rows == call.value.rows
    IN  /\ rows = Pick(df, HalfOpen(df, s, e), 1)
        /\ \A k \in DOMAIN df :
             /\ (df[k].timestamp = R(s, 1) /\ s < e) => k \in HalfOpen(df, s, e)
             /\ df[k].timestamp = R(e, 1) => k \notin HalfOpen(df, s, e)
        /\ keep(Callee, rows) = rows
        /\ estimate(Callee, rows) = call.value.ret

\* The rows of df, each with its place in df, that the mask keeps.
C3_KeptOf(df, res) ==
    LET placed == [k \in DOMAIN df |-> [timestamp |-> df[k].timestamp, place |-> k]]
        kept == Filtered(placed, MeterStart(res), MeterEnd(res))
    IN  { kept[k].place : k \in DOMAIN kept }

C3_Adjacent(i) ==
    (life[i] = "end" /\ begin(i))
        => \A t \in Instants :
             RLe(now, t) =>
               LET first == obj[i].meter.result
                   second == MeasurementEnd(obj'[i].meter, t,
                                            CHOOSE r \in Readings : TRUE).result
                   Both(df) == C3_KeptOf(df, first) \cap C3_KeptOf(df, second)
               IN  MeterStart(second) = MeterEnd(first)
                       => /\ \A df \in GpuLogs : Both(df) = {}
                          /\ \A df \in DiskLogs : Both(df) = {}

-----------------------------------------------------------------------------
\* The raw counters of a result, summed and scaled to joules.
RawJoules(res) == R(Sum(res.pkg) + Sum(res.dram), 1000000)

ReportKeys == {"cpu", "dram", "gpu", "disk"}

C5_IdleClamped ==
    Returned("get_total_jules_disk")
        => LET rows == call.value.rows
               active == DiskActiveTime(Callee, rows)
               seconds == RMul(Result.duration, Micro)
           IN  /\ RLe(Zero, DiskIdleTime(Callee, rows))
               /\ RLt(seconds, active) =>
                      call.value.ret = RMul(active, R(Callee.disk_active_power, 1))

\* C6: when the accelerator log has no row in the window of a closed session,
\* the report returns, its gpu is 0, and its cpu, dram and disk are those of
\* the report with any other accelerator log.
C6_EmptyWindowGpuZero ==
    (/\ call.op = "get_total_jules_per_component"
     /\ life[call.inst] = "end"
     /\ HalfOpen(call.arg.gpu_stats, MeterStart(Result), MeterEnd(Result)) = {})
        => /\ ~Failed(call)
           /\ call.value.gpu = Zero
           /\ \A df \in GpuLogs :
                LET other == get_total_jules_per_component(
                                 Callee, [call.arg EXCEPT !.gpu_stats = df])
                IN  /\ other.cpu = call.value.cpu
                    /\ other.dram = call.value.dram
                    /\ other.disk = call.value.disk

\* A report returned for a log that has rows, none of them in the window.
C6_Witness ==
    /\ Returned("get_total_jules_per_component")
    /\ MeterStart(Result) < MeterEnd(Result)
    /\ call.arg.gpu_stats # <<>>
    /\ HalfOpen(call.arg.gpu_stats, MeterStart(Result), MeterEnd(Result)) = {}
    /\ call.value.gpu = Zero
    /\ call.value.disk # Zero

\* The rows of the disk log that count: in the window, their command name one
\* of the python ones.
C7_Counted(df) ==
    { k \in HalfOpen(df, MeterStart(Result), MeterEnd(Result)) :
        df[k].ByteSize \in {Python, Python3} }

C7_TotalBytes(df) == SumOver([k \in DOMAIN df |-> df[k].Operation], C7_Counted(df))

\* C7: with active_time <= duration the storage estimator returns
\* active_time * disk_active_power + (duration - active_time) * disk_idle_power,
\* active_time being the bytes of the in-window tagged rows over the
\* throughput; no bytes give duration * disk_idle_power; 10 s with 500 MB and
\* 300 MB at 200 MB/s, 6 W and 1 W give 4 s, 6 s and 30 J.
C7_DiskEnergy ==
    Returned("get_total_jules_disk")
        => LET total_bytes == C7_TotalBytes(call.arg)
               active == R(total_bytes, Callee.disk_avg_speed)
               seconds == RMul(Result.duration, Micro)
               idle == RSub(seconds, active)
               energy == RAdd(RMul(active, R(Callee.disk_active_power, 1)),
                              RMul(idle, R(Callee.disk_idle_power, 1)))
           IN  /\ RLe(active, seconds) => call.value.ret = energy
               /\ total_bytes = 0 =>
                      call.value.ret = RMul(seconds, R(Callee.disk_idle_power, 1))
               /\ (/\ seconds = R(10, 1)
                   /\ { call.arg[k].Operation : k \in C7_Counted(call.arg) }
                          = {500000000, 300000000}
                   /\ Cardinality(C7_Counted(call.arg)) = 2
                   /\ Callee.disk_avg_speed = 200000000
                   /\ Callee.disk_active_power = 6
                   /\ Callee.disk_idle_power = 1)
                      => /\ active = R(4, 1)
                         /\ idle = R(6, 1)
                         /\ call.value.ret = R(30, 1)

\* The 30 J scenario: a 10 s session, a log with the two events and with
\* rows that do not count (no tag; at the end of the window).
C7_Witness ==
    /\ Returned("get_total_jules_disk")
    /\ Result.duration = R(10000000, 1)
    /\ Callee.disk_avg_speed = 200000000
    /\ Cardinality(C7_Counted(call.arg)) = 2
    /\ Len(call.arg) = 4
    /\ call.value.ret = R(30, 1)

-----------------------------------------------------------------------------
ReadCall ==
    LET i == call'.inst
        arg == call'.arg
    IN  CASE call'.op = "get_total_jules_cpu" -> CallCpu(i)
          [] call'.op = "get_total_jules_dram" -> CallDram(i)
          [] call'.op = "get_total_jules_gpu" -> CallGpu(i, arg)
          [] call'.op = "get_total_jules_disk" -> CallDisk(i, arg)
          [] call'.op = "get_total_jules_per_component" -> CallReport(i, arg)
          [] call'.op = "plot_total_jules_per_component" -> CallPlot(i, arg)
          [] OTHER -> FALSE

\* C9: on a closed session get_total_jules_cpu and get_total_jules_dram
\* return, one value per sub-reading of the snapshot in its order, each the
\* raw micro-joules times 1e-6; and a call of any estimator, of the report or
\* of the plot changes nothing of the controller (label, start, duration,
\* snapshot, disk parameters), of the session state or of the setup.
C9_PureReads ==
    /\ [](/\ (call.op = "get_total_jules_cpu" /\ life[call.inst] = "end")
               => /\ ~Failed(call)
                  /\ Len(call.value) = Len(Result.pkg)
                  /\ \A k \in DOMAIN Result.pkg :
                       call.value[k] = R(Result.pkg[k], 1000000)
          /\ (call.op = "get_total_jules_dram" /\ life[call.inst] = "end")
               => /\ ~Failed(call)
                  /\ Len(call.value) = Len(Result.dram)
                  /\ \A k \in DOMAIN Result.dram :
                       call.value[k] = R(Result.dram[k], 1000000))
    /\ [][ReadCall => (obj' = obj /\ life' = life /\ setups' = setups)]_vars

\* The processor energy of a two-socket snapshot: 2 J and 0.5 J.
C9_Witness ==
    /\ Returned("get_total_jules_cpu")
    /\ call.value = <<R(2, 1), R(1, 2)>>

\* C10: an estimator or the report called on a controller whose window is not
\* closed (never begun, or begun and not yet ended) fails.
C10_NoValueUnlessClosed ==
    (call.op \in Estimators /\ life[call.inst] # "end") => Failed(call)

\* The report failed on a controller with an open window.
C10_Witness ==
    /\ call.op = "get_total_jules_per_component"
    /\ life[call.inst] = "begin"
    /\ Failed(call)

====
